---------------------------- MODULE Spec2Model ----------------------------
(***************************************************************************)
(* A model of msiparse (src/src/main.rs): the six subcommands, the helper  *)
(* functions they share, the output directory they write to and the lines  *)
(* they print.                                                             *)
(*                                                                         *)
(* Text (stream names, output file names, table cells, metadata fields) is *)
(* a sequence of Unicode code points; the lines the program prints are     *)
(* kept as strings.                                                        *)
(*                                                                         *)
(* The calls into the msi and cfb crates are the program's environment.    *)
(* They are modelled by their documented results on the input file:        *)
(*   cfb exists(p)        an entry (stream or storage) is at p             *)
(*   cfb open_stream(p)   fails unless a stream is at p                    *)
(*   msi has_digital_signature()  a stream is at \u{5}DigitalSignature     *)
(*   msi read_stream(n)   fails unless the package has a stream named n    *)
(* and every call that returns a Result may also fail on the environment's *)
(* choice (a corrupt sector chain, a full disk, a missing directory).      *)
(***************************************************************************)
EXTENDS Integers, Sequences, FiniteSets, TLC

VARIABLES
    file,      \* the input file: what the msi and cfb crates find in it
    ran,       \* per subcommand of this session: "no", "ok" or "panic"
    cmd,       \* the subcommand running now, "idle" between two runs
    pc,        \* the position inside the running subcommand
    idx,       \* the loop index of extractall and list_tables
    has_sig,   \* extract_certificate's locals <<has_signature, has_signature_ex>>
    tables,    \* list_tables' local vector of MsiTable
    fs,        \* the files on disk: <<directory, file name>> -> bytes
    calls,     \* the dump_stream and extract_cfb_stream calls made so far
    stdout,    \* what was printed on standard output, in order
    stderr     \* what was printed on standard error, in order

vars == <<file, ran, cmd, pc, idx, has_sig, tables, fs, calls, stdout, stderr>>

---------------------------------------------------------------------------
(* Bounds of the model *)

\* longest stream name of a package, in characters
MaxNameLen == 2
\* most streams in a package
MaxStreams == 2
\* longest content of a package stream, in bytes
MaxStreamLen == 1
\* longest content of a signature stream, in bytes
MaxLen == 2
\* largest byte value of a stream's content
MaxByte == 1
\* most tables in a package
MaxTables == 3
\* most rows in a table
MaxRows == 1
\* largest word count of a summary
MaxWordCount == 2

---------------------------------------------------------------------------
(* Characters and names *)

\* The characters stream names are drawn from: U+0005 (the control character
\* that starts the reserved names), '.', '/', 'A' and U+00E9.
Chars == {5, 46, 47, 65, 233}

SeqsUpTo(S, n) == UNION {[1..k -> S] : k \in 0..n}

Last(s) == s[Len(s)]

Front(s) == SubSeq(s, 1, Len(s) - 1)

\* "\u{5}DigitalSignature"
DIGITAL_SIGNATURE_STREAM_NAME ==
    <<5, 68, 105, 103, 105, 116, 97, 108, 83, 105, 103, 110, 97, 116, 117, 114, 101>>

\* "\u{5}MsiDigitalSignatureEx"
MSI_DIGITAL_SIGNATURE_EX_STREAM_NAME ==
    <<5, 77, 115, 105, 68, 105, 103, 105, 116, 97, 108, 83, 105, 103, 110, 97,
      116, 117, 114, 101, 69, 120>>

\* "DigitalSignature"
DigitalSignatureFileName == Tail(DIGITAL_SIGNATURE_STREAM_NAME)

\* "MsiDigitalSignatureEx"
MsiDigitalSignatureExFileName == Tail(MSI_DIGITAL_SIGNATURE_EX_STREAM_NAME)

\* char::is_ascii_graphic: U+0021 '!' ..= U+007E '~'
is_ascii_graphic(c) == c >= 33 /\ c <= 126

\* char::is_ascii_whitespace: space, tab, line feed, form feed, carriage return
is_ascii_whitespace(c) == c \in {32, 9, 10, 12, 13}

KeepChar(c) == is_ascii_graphic(c) \/ is_ascii_whitespace(c)

\* A sanitizer that filters nothing: the stream name is the file name.
sanitize_nothing(name) == name

sanitize_stream_name(name) == SelectSeq(name, KeepChar)

---------------------------------------------------------------------------
(* Paths and the file system (Unix rules) *)

\* The directories that exist: the file system's root, the parent of the
\* output directory, and the caller-supplied output directory itself.  Their
\* own names are not made of the characters of Chars, and the output
\* directory has no subdirectory.
RootDir == 0
ParentDir == 1
OutDir == 2

Slash == 47
Dot == <<46>>
DotDot == <<46, 46>>

\* The components of a path: the runs between '/' characters, empty ones kept.
RECURSIVE Components(_)
Components(p) ==
    IF p = <<>> THEN << <<>> >>
    ELSE LET rest == Components(Tail(p))
         IN  IF Head(p) = Slash
             THEN << <<>> >> \o rest
             ELSE << <<Head(p)>> \o Head(rest) >> \o Tail(rest)

\* Path::join: an absolute second path replaces the first.
IsAbsolute(name) == name # <<>> /\ Head(name) = Slash

\* The directory reached from dir through the components cs, -1 when a
\* component names a directory that does not exist.
RECURSIVE WalkDirs(_, _)
WalkDirs(dir, cs) ==
    IF cs = <<>> THEN dir
    ELSE LET c == Head(cs)
         IN  IF c = <<>> \/ c = Dot THEN WalkDirs(dir, Tail(cs))
             ELSE IF c = DotDot
                  THEN WalkDirs(IF dir = RootDir THEN RootDir ELSE dir - 1, Tail(cs))
                  ELSE -1

\* The file that output_dir.join(name) denotes: <<directory, file name>>, or
\* <<-1, <<>>>> when the path denotes no file that can be created (its last
\* component is empty, "." or "..", so it names a directory, or a directory
\* on the way does not exist).
JoinPath(name) ==
    LET cs == Components(name)
        d  == WalkDirs(IF IsAbsolute(name) THEN RootDir ELSE OutDir, Front(cs))
        f  == Last(cs)
    IN  IF d = -1 \/ f = <<>> \/ f = Dot \/ f = DotDot
        THEN <<-1, <<>> >>
        ELSE <<d, f>>

CanCreate(name) == JoinPath(name)[1] # -1

\* File::create: the file exists afterwards and is empty.
FileCreate(files, path) ==
    [p \in DOMAIN files \cup {path} |-> IF p = path THEN <<>> ELSE files[p]]

\* Write::write_all and io::copy append to the file just created.
FileWrite(files, path, bytes) == [files EXCEPT ![path] = @ \o bytes]

NoFiles == [p \in {} |-> <<>>]

---------------------------------------------------------------------------
(* The input file *)

Names == SeqsUpTo(Chars, MaxNameLen) \ {<<>>}

ByteSeqs(n) == SeqsUpTo(0..MaxByte, n)

\* What is at a path of the compound file's root.
EntryKinds == {"none", "stream", "storage"}

\* Option<T>: None is the empty sequence, Some(v) the sequence of v alone.
None == <<>>

Some(v) == <<v>>

IsSome(o) == o # <<>>

Unwrap(o) == o[1]

NoSummary ==
    [title |-> None, subject |-> None, author |-> None, uuid |-> None,
     arch |-> None, languages |-> <<>>, creation_time |-> None,
     creating_application |-> None, codepage |-> 1252, word_count |-> None,
     comments |-> None]

\* A file that msi::open and cfb::open both reject.
NotACompoundFile ==
    [format |-> "other", ds |-> "none", ex |-> "none", dsBytes |-> <<>>,
     exBytes |-> <<>>, streams |-> <<>>, summary |-> NoSummary, tables |-> <<>>]

\* A package with nothing in it; format "cfb" is a compound file that is
\* not an MSI package (cfb::open accepts it, msi::open does not).
EmptyPackage == [NotACompoundFile EXCEPT !.format = "msi"]

\* package.streams(): the names of the package's streams, in directory order
stream_names == [i \in DOMAIN file.streams |-> file.streams[i].name]

HasStream(name) == \E i \in DOMAIN file.streams : file.streams[i].name = name

StreamBytes(name) ==
    LET i == CHOOSE j \in DOMAIN file.streams : file.streams[j].name = name
    IN  file.streams[i].bytes

\* What is at one of the two reserved paths of the compound file's root.
EntryAt(name) ==
    IF name = DIGITAL_SIGNATURE_STREAM_NAME THEN file.ds ELSE file.ex

EntryBytes(name) ==
    IF name = DIGITAL_SIGNATURE_STREAM_NAME THEN file.dsBytes ELSE file.exBytes

\* cfb::CompoundFile::exists: a stream or a storage is at the path
exists(name) == EntryAt(name) # "none"

\* msi::Package::has_digital_signature: a stream is at \u{5}DigitalSignature
has_digital_signature == file.ds = "stream"

---------------------------------------------------------------------------
(* The session: subcommands run one after the other on the same file *)

Commands ==
    {"list_metadata", "list_streams", "list_tables", "extract_all", "extract",
     "extract_certificate"}

\* The subcommands that write into the output directory.  The session holds
\* at most one of them: the output directory is the fresh one of Init.
Writers == {"extract_all", "extract", "extract_certificate"}

CanStart(c) ==
    /\ cmd = "idle"
    /\ ran[c] = "no"
    /\ c \in Writers => \A w \in Writers : ran[w] = "no"

InitSession ==
    /\ ran = [c \in Commands |-> "no"]
    /\ cmd = "idle"
    /\ pc = "idle"
    /\ idx = 0
    /\ has_sig = <<FALSE, FALSE>>
    /\ tables = <<>>
    /\ fs = NoFiles
    /\ calls = <<>>
    /\ stdout = <<>>
    /\ stderr = <<>>

\* A line of text printed by subcommand who.
Line(who, v) == [who |-> who, what |-> "text", v |-> v, pretty |-> FALSE]

Lines(who, vs) == [i \in DOMAIN vs |-> Line(who, vs[i])]

\* The JSON document printed by subcommand who: the value serialized, and
\* whether it was pretty-printed.
Json(who, v, pretty) == [who |-> who, what |-> "json", v |-> v, pretty |-> pretty]

\* A subcommand returns to main, which returns: the process exits normally.
Return(c) ==
    /\ ran' = [ran EXCEPT ![c] = "ok"]
    /\ cmd' = "idle"
    /\ pc' = "idle"

\* expect()/unwrap() on an Err or None: the process prints the panic message
\* on standard error and ends at once; nothing that follows in the
\* subcommand is executed.
Panic(c, msg) ==
    /\ ran' = [ran EXCEPT ![c] = "panic"]
    /\ cmd' = "idle"
    /\ pc' = "idle"
    /\ stderr' = Append(stderr, [who |-> c, what |-> "panic", v |-> msg, pretty |-> FALSE])

---------------------------------------------------------------------------
(* dump_stream, extractall, extract, list_streams *)

\* The ways one call dump_stream(stream_name, package, output_dir) can end
\* when the files on disk are files: ret is "true", "false" or "panic", fs
\* the files afterwards, out and err the lines printed.
dump_stream(stream_name, files) ==
    LET sanitized_name == sanitize_stream_name(stream_name)
        stream_path    == JoinPath(sanitized_name)
        bytes          == StreamBytes(stream_name)
        created        == FileCreate(files, stream_path)
        \* package.read_stream fails: no such stream, or it cannot be opened
        read_failed ==
            {[ret |-> "false", why |-> "read_stream", fs |-> files, out |-> <<>>,
              err |-> << <<"failed to read, ignoring", stream_name>> >>]}
        \* File::create fails: the path cannot be created, or the system refuses
        create_failed ==
            {[ret |-> "false", why |-> "create", fs |-> files,
              out |-> << <<"failed to write into, ignoring", sanitized_name>> >>,
              err |-> <<>>]}
        \* io::copy returns Ok: every byte of the stream is in the file
        copied ==
            {[ret |-> "true", why |-> "ok",
              fs |-> FileWrite(created, stream_path, bytes),
              out |-> << <<"Copying stream", stream_name, sanitized_name>> >>,
              err |-> <<>>]}
        \* io::copy returns Err after k bytes: expect("io::copy failed") panics
        copy_failed ==
            {[ret |-> "panic", why |-> "copy",
              fs |-> FileWrite(created, stream_path, SubSeq(bytes, 1, k)),
              out |-> << <<"Copying stream", stream_name, sanitized_name>> >>,
              err |-> <<>>] : k \in 0..(IF bytes = <<>> THEN 0 ELSE Len(bytes) - 1)}
    IN  IF ~HasStream(stream_name) THEN read_failed
        ELSE IF ~CanCreate(sanitized_name) THEN read_failed \cup create_failed
        ELSE read_failed \cup create_failed \cup copied \cup copy_failed

\* The record of one call, kept for the properties.
CallRecord(fn, name, path, o, before) ==
    [fn |-> fn, name |-> name, path |-> path, ret |-> o.ret, why |-> o.why,
     before |-> before, after |-> o.fs]

\* One dump_stream call made by subcommand c, and what follows it there.
DoDumpStream(c, stream_name, o) ==
    /\ fs' = o.fs
    /\ stdout' = stdout \o Lines(c, o.out)
    /\ calls' = Append(calls,
                  CallRecord("dump_stream", stream_name,
                             JoinPath(sanitize_stream_name(stream_name)), o, fs))
    /\ IF o.ret = "panic"
       THEN Panic(c, "io::copy failed")
       ELSE stderr' = stderr \o Lines(c, o.err)

\* extractall, line 81-82: open the package and collect its stream names
ExtractAllOpen ==
    /\ CanStart("extract_all")
    /\ IF file.format = "msi"
       THEN /\ cmd' = "extract_all"
            /\ pc' = "loop"
            /\ idx' = 1
            /\ UNCHANGED <<ran, stderr>>
       ELSE /\ Panic("extract_all", "open package")
            /\ UNCHANGED idx
    /\ UNCHANGED <<file, has_sig, tables, fs, calls, stdout>>

\* extractall, line 84-86: one iteration of the loop
ExtractAllStep ==
    /\ cmd = "extract_all"
    /\ pc = "loop"
    /\ idx <= Len(stream_names)
    /\ \E o \in dump_stream(stream_names[idx], fs) :
          /\ DoDumpStream("extract_all", stream_names[idx], o)
          /\ IF o.ret = "panic"
             THEN UNCHANGED idx
             ELSE /\ idx' = idx + 1
                  /\ UNCHANGED <<ran, cmd, pc>>
    /\ UNCHANGED <<file, has_sig, tables>>

\* extractall, line 87: the loop is over
ExtractAllReturn ==
    /\ cmd = "extract_all"
    /\ pc = "loop"
    /\ idx > Len(stream_names)
    /\ Return("extract_all")
    /\ UNCHANGED <<file, idx, has_sig, tables, fs, calls, stdout, stderr>>

\* extract: the whole subcommand, for the stream name given on the command line
Extract ==
    /\ CanStart("extract")
    /\ \E stream_name \in Names :
          IF file.format = "msi"
          THEN \E o \in dump_stream(stream_name, fs) :
                  /\ DoDumpStream("extract", stream_name, o)
                  /\ o.ret # "panic" => Return("extract")
          ELSE /\ Panic("extract", "open package")
               /\ UNCHANGED <<fs, calls, stdout>>
    /\ UNCHANGED <<file, idx, has_sig, tables>>

\* list_streams: the whole subcommand
ListStreams ==
    /\ CanStart("list_streams")
    /\ IF file.format = "msi"
       THEN /\ \E pretty \in BOOLEAN :
                  stdout' = Append(stdout, Json("list_streams", stream_names, pretty))
            /\ Return("list_streams")
            /\ UNCHANGED stderr
       ELSE /\ Panic("list_streams", "open package")
            /\ UNCHANGED stdout
    /\ UNCHANGED <<file, idx, has_sig, tables, fs, calls>>

\* The packages of the extraction runs: up to MaxStreams streams with
\* distinct names, each with its own bytes.
ExtractFiles ==
    {NotACompoundFile} \cup
    {[EmptyPackage EXCEPT !.streams = s] :
        s \in {t \in SeqsUpTo([name : Names, bytes : ByteSeqs(MaxStreamLen)], MaxStreams) :
                 \A i, j \in DOMAIN t : i # j => t[i].name # t[j].name}}

InitExtract ==
    /\ file \in ExtractFiles
    /\ InitSession

NextExtract ==
    \/ ExtractAllOpen
    \/ ExtractAllStep
    \/ ExtractAllReturn
    \/ Extract
    \/ ListStreams

SpecExtract == InitExtract /\ [][NextExtract]_vars

---------------------------------------------------------------------------
(* extract_cfb_stream, extract_certificate *)

\* The ways one call extract_cfb_stream(comp_file, stream_name, output_dir)
\* can end when the files on disk are files.
extract_cfb_stream(stream_name, files) ==
    LET sanitized_name == sanitize_stream_name(stream_name)
        output_path    == JoinPath(sanitized_name)
        buffer         == EntryBytes(stream_name)
        created        == FileCreate(files, output_path)
        \* comp_file.open_stream fails: no stream at the path, or it cannot be opened
        open_failed ==
            {[ret |-> "false", why |-> "open_stream", fs |-> files, out |-> <<>>,
              err |-> << <<"Failed to open stream", stream_name>> >>]}
        \* File::create fails
        create_failed ==
            {[ret |-> "false", why |-> "create", fs |-> files, out |-> <<>>,
              err |-> << <<"Failed to create output file">> >>]}
        \* stream.read_to_end fails: the file was created and nothing is written
        read_failed ==
            {[ret |-> "false", why |-> "read_to_end", fs |-> created, out |-> <<>>,
              err |-> << <<"Failed to read stream", stream_name>> >>]}
        \* file.write_all fails after k of the buffer's bytes
        write_failed ==
            {[ret |-> "false", why |-> "write_all",
              fs |-> FileWrite(created, output_path, SubSeq(buffer, 1, k)),
              out |-> <<>>,
              err |-> << <<"Failed to write to file", stream_name>> >>] :
                k \in 0..(Len(buffer) - 1)}
        written ==
            {[ret |-> "true", why |-> "ok",
              fs |-> FileWrite(created, output_path, buffer),
              out |-> << <<"Successfully extracted", stream_name, sanitized_name>> >>,
              err |-> <<>>]}
    IN  IF EntryAt(stream_name) # "stream" THEN open_failed
        ELSE IF ~CanCreate(sanitized_name) THEN open_failed \cup create_failed
        ELSE open_failed \cup create_failed \cup read_failed \cup write_failed
                 \cup written

\* One extract_cfb_stream call; its boolean result is dropped by the caller.
DoExtractCfbStream(stream_name, o) ==
    /\ fs' = o.fs
    /\ stdout' = stdout \o Lines("extract_certificate", o.out)
    /\ stderr' = stderr \o Lines("extract_certificate", o.err)
    /\ calls' = Append(calls,
                  CallRecord("extract_cfb_stream", stream_name,
                             JoinPath(sanitize_stream_name(stream_name)), o, fs))

\* The two verdicts extract_certificate prints, lines 105 and 117.
Signed == <<"MSI file has a digital signature">>

NotSigned == <<"MSI file does not have a digital signature">>

\* extract_certificate, lines 99-105 and 116-120: open the file as a compound
\* file, look for the two reserved names and print the verdict
CertOpen ==
    /\ CanStart("extract_certificate")
    /\ IF file.format = "other"
       THEN /\ stderr' = Append(stderr, Line("extract_certificate",
                               <<"Failed to open MSI file as a Compound File Binary">>))
            /\ Return("extract_certificate")
            /\ UNCHANGED <<has_sig, stdout>>
       ELSE LET has_signature    == exists(DIGITAL_SIGNATURE_STREAM_NAME)
                has_signature_ex == exists(MSI_DIGITAL_SIGNATURE_EX_STREAM_NAME)
            IN  /\ has_sig' = <<has_signature, has_signature_ex>>
                /\ UNCHANGED stderr
                /\ IF has_signature \/ has_signature_ex
                   THEN /\ stdout' = Append(stdout, Line("extract_certificate", Signed))
                        /\ cmd' = "extract_certificate"
                        /\ pc' = "signature"
                        /\ UNCHANGED ran
                   ELSE /\ stdout' = Append(stdout, Line("extract_certificate", NotSigned))
                        /\ Return("extract_certificate")
    /\ UNCHANGED <<file, idx, tables, fs, calls>>

\* extract_certificate, lines 108-110
CertSignature ==
    /\ cmd = "extract_certificate"
    /\ pc = "signature"
    /\ IF has_sig[1]
       THEN \E o \in extract_cfb_stream(DIGITAL_SIGNATURE_STREAM_NAME, fs) :
                DoExtractCfbStream(DIGITAL_SIGNATURE_STREAM_NAME, o)
       ELSE UNCHANGED <<fs, calls, stdout, stderr>>
    /\ pc' = "signature_ex"
    /\ UNCHANGED <<file, ran, cmd, idx, has_sig, tables>>

\* extract_certificate, lines 113-115, and the return
CertSignatureEx ==
    /\ cmd = "extract_certificate"
    /\ pc = "signature_ex"
    /\ IF has_sig[2]
       THEN \E o \in extract_cfb_stream(MSI_DIGITAL_SIGNATURE_EX_STREAM_NAME, fs) :
                DoExtractCfbStream(MSI_DIGITAL_SIGNATURE_EX_STREAM_NAME, o)
       ELSE UNCHANGED <<fs, calls, stdout, stderr>>
    /\ Return("extract_certificate")
    /\ UNCHANGED <<file, idx, has_sig, tables>>

---------------------------------------------------------------------------
(* MsiMetaData, get_metadata *)

\* The decimal digits of a natural number, as characters.
RECURSIVE Digits(_)
Digits(n) == IF n < 10 THEN <<48 + n>> ELSE Digits(n \div 10) \o <<48 + (n % 10)>>

\* i32/u32 to_string
IntToString(n) == IF n < 0 THEN <<45>> \o Digits(-n) ELSE Digits(n)

Pad2(n) == <<48 + (n \div 10), 48 + (n % 10)>>

HexByte(b) ==
    LET Hex(d) == IF d < 10 THEN 48 + d ELSE 87 + d
    IN  <<Hex(b \div 16), Hex(b % 16)>>

RECURSIVE HexBytes(_)
HexBytes(bs) == IF bs = <<>> THEN <<>> ELSE HexByte(Head(bs)) \o HexBytes(Tail(bs))

\* Uuid::hyphenated().to_string(): the 16 bytes in lower-case hexadecimal,
\* in groups of 4, 2, 2, 2 and 6 bytes separated by '-'
Hyphenated(uuid) ==
    HexBytes(SubSeq(uuid, 1, 4)) \o <<45>> \o HexBytes(SubSeq(uuid, 5, 6)) \o <<45>>
        \o HexBytes(SubSeq(uuid, 7, 8)) \o <<45>> \o HexBytes(SubSeq(uuid, 9, 10))
        \o <<45>> \o HexBytes(SubSeq(uuid, 11, 16))

\* OffsetDateTime::from(t).to_string() for a time t seconds into 1970-01-01
\* UTC: "1970-01-01 h:mm:ss.0 +00:00:00"
DateTimeToString(t) ==
    <<49, 57, 55, 48, 45, 48, 49, 45, 48, 49>> \o <<32>> \o Digits(t \div 3600) \o <<58>>
        \o Pad2((t % 3600) \div 60) \o <<58>> \o Pad2(t % 60) \o <<46, 48, 32>>
        \o <<43, 48, 48, 58, 48, 48, 58, 48, 48>>

\* Language::tag() of the two language codes of the model
LanguageTag(code) == IF code = 1033 THEN <<101, 110, 45, 85, 83>> ELSE <<100, 101, 45, 68, 69>>

\* CodePage::name() of the two code pages of the model
CodePageName(id) == IF id = 65001 THEN <<85, 84, 70, 45, 56>> ELSE <<87, 105, 110, 100, 111, 119, 115, 32, 76, 97, 116, 105, 110, 32, 49>>

\* The all-zero default that #[derive(Default)] would give: word_count is 0.
MsiMetaData_zeroed ==
    [title |-> <<>>, subject |-> <<>>, author |-> <<>>, uuid |-> <<>>,
     arch |-> <<>>, languages |-> <<>>, created_at |-> <<>>,
     created_with |-> <<>>, is_signed |-> FALSE, codepage |-> <<>>,
     codepage_id |-> <<>>, word_count |-> 0, comments |-> <<>>]

\* impl Default for MsiMetaData
MsiMetaData_default ==
    [title |-> <<>>, subject |-> <<>>, author |-> <<>>, uuid |-> <<>>,
     arch |-> <<>>, languages |-> <<>>, created_at |-> <<>>,
     created_with |-> <<>>, is_signed |-> FALSE, codepage |-> <<>>,
     codepage_id |-> <<>>, word_count |-> -1, comments |-> <<>>]

\* get_metadata, lines 235-237
set_title(meta, summary) ==
    IF IsSome(summary.title)
    THEN [meta EXCEPT !.title = Unwrap(summary.title)] ELSE meta

\* lines 239-241
set_subject(meta, summary) ==
    IF IsSome(summary.subject)
    THEN [meta EXCEPT !.subject = Unwrap(summary.subject)] ELSE meta

\* lines 243-245: the author is stored in meta.title
set_author(meta, summary) ==
    IF IsSome(summary.author)
    THEN [meta EXCEPT !.title = Unwrap(summary.author)] ELSE meta

\* lines 247-249
set_uuid(meta, summary) ==
    IF IsSome(summary.uuid)
    THEN [meta EXCEPT !.uuid = Hyphenated(Unwrap(summary.uuid))] ELSE meta

\* lines 251-253
set_arch(meta, summary) ==
    IF IsSome(summary.arch)
    THEN [meta EXCEPT !.arch = Unwrap(summary.arch)] ELSE meta

\* lines 255-259
set_languages(meta, summary) ==
    [meta EXCEPT !.languages =
        [i \in DOMAIN summary.languages |-> LanguageTag(summary.languages[i])]]

\* lines 261-263
set_created_at(meta, summary) ==
    IF IsSome(summary.creation_time)
    THEN [meta EXCEPT !.created_at = DateTimeToString(Unwrap(summary.creation_time))]
    ELSE meta

\* lines 265-271 (the same statement twice)
set_created_with(meta, summary) ==
    IF IsSome(summary.creating_application)
    THEN [meta EXCEPT !.created_with = Unwrap(summary.creating_application)]
    ELSE meta

\* line 273
set_is_signed(meta) == [meta EXCEPT !.is_signed = has_digital_signature]

\* lines 274-275
set_codepage(meta, summary) ==
    [meta EXCEPT !.codepage = CodePageName(summary.codepage),
                 !.codepage_id = IntToString(summary.codepage)]

\* lines 277-279
set_word_count(meta, summary) ==
    IF IsSome(summary.word_count)
    THEN [meta EXCEPT !.word_count = Unwrap(summary.word_count)] ELSE meta

\* lines 281-283
set_comments(meta, summary) ==
    IF IsSome(summary.comments)
    THEN [meta EXCEPT !.comments = Unwrap(summary.comments)] ELSE meta

\* The record get_metadata builds for the input file, lines 231-283.
metadata ==
    LET summary == file.summary
        m0  == MsiMetaData_default
        m1  == set_title(m0, summary)
        m2  == set_subject(m1, summary)
        m3  == set_author(m2, summary)
        m4  == set_uuid(m3, summary)
        m5  == set_arch(m4, summary)
        m6  == set_languages(m5, summary)
        m7  == set_created_at(m6, summary)
        m8  == set_created_with(set_created_with(m7, summary), summary)
        m9  == set_is_signed(m8)
        m10 == set_codepage(m9, summary)
        m11 == set_word_count(m10, summary)
    IN  set_comments(m11, summary)

\* get_metadata: the whole subcommand
GetMetadata ==
    /\ CanStart("list_metadata")
    /\ IF file.format = "msi"
       THEN /\ \E pretty \in BOOLEAN :
                  stdout' = Append(stdout, Json("list_metadata", metadata, pretty))
            /\ Return("list_metadata")
            /\ UNCHANGED stderr
       ELSE /\ Panic("list_metadata", "open package")
            /\ UNCHANGED stdout
    /\ UNCHANGED <<file, idx, has_sig, tables, fs, calls>>

---------------------------------------------------------------------------
(* MsiTable, list_tables *)

\* A cell of a row: msi::Value is Null, Int(i32) or Str(String).
NullValue == [kind |-> "Null", int |-> 0, str |-> <<>>]

IntValue(n) == [kind |-> "Int", int |-> n, str |-> <<>>]

StrValue(t) == [kind |-> "Str", int |-> 0, str |-> t]

Quote == 34
Backslash == 92

\* The Debug form of a string's characters: '"' and '\' get a backslash.
RECURSIVE EscapeDebug(_)
EscapeDebug(t) ==
    IF t = <<>> THEN <<>>
    ELSE (IF Head(t) \in {Quote, Backslash} THEN <<Backslash, Head(t)>> ELSE <<Head(t)>>)
         \o EscapeDebug(Tail(t))

\* msi::Value's Display: NULL, the number, or the string in its Debug form
ValueToString(v) ==
    CASE v.kind = "Null" -> <<78, 85, 76, 76>>
      [] v.kind = "Int"  -> IntToString(v.int)
      [] v.kind = "Str"  -> <<Quote>> \o EscapeDebug(v.str) \o <<Quote>>

RECURSIVE TrimStart(_, _)
TrimStart(t, c) == IF t # <<>> /\ Head(t) = c THEN TrimStart(Tail(t), c) ELSE t

RECURSIVE TrimEnd(_, _)
TrimEnd(t, c) == IF t # <<>> /\ Last(t) = c THEN TrimEnd(Front(t), c) ELSE t

\* str::trim_matches(c): every leading and every trailing c is removed
trim_matches(t, c) == TrimEnd(TrimStart(t, c), c)

\* list_tables, lines 143-150: one row as strings
RowStrings(row) == [i \in DOMAIN row |-> trim_matches(ValueToString(row[i]), Quote)]

\* list_tables, lines 140-165: the MsiTable pushed for table t
MsiTable(t) ==
    [name |-> t.name, columns |-> t.columns,
     rows |-> [i \in DOMAIN t.rows |-> RowStrings(t.rows[i])]]

\* list_tables, lines 135-138
ListTablesOpen ==
    /\ CanStart("list_tables")
    /\ IF file.format = "msi"
       THEN /\ cmd' = "list_tables"
            /\ pc' = "loop"
            /\ idx' = 1
            /\ tables' = <<>>
            /\ UNCHANGED <<ran, stderr>>
       ELSE /\ Panic("list_tables", "open package")
            /\ UNCHANGED <<idx, tables>>
    /\ UNCHANGED <<file, has_sig, fs, calls, stdout>>

\* list_tables, lines 139-166: one iteration of the loop.  select_rows is an
\* Err when the table's rows cannot be decoded, and expect("select") panics;
\* get_table is None when the table cannot be looked up, and unwrap() panics.
ListTablesStep ==
    /\ cmd = "list_tables"
    /\ pc = "loop"
    /\ idx <= Len(file.tables)
    /\ LET table == file.tables[idx]
       IN  IF ~table.select_ok
           THEN /\ Panic("list_tables", "select")
                /\ UNCHANGED <<idx, tables>>
           ELSE IF ~table.lookup_ok
           THEN /\ Panic("list_tables", "unwrap on None")
                /\ UNCHANGED <<idx, tables>>
           ELSE /\ tables' = Append(tables, MsiTable(table))
                /\ idx' = idx + 1
                /\ UNCHANGED <<ran, cmd, pc, stderr>>
    /\ UNCHANGED <<file, has_sig, fs, calls, stdout>>

\* list_tables, lines 168-174: serialize and print the vector
ListTablesPrint ==
    /\ cmd = "list_tables"
    /\ pc = "loop"
    /\ idx > Len(file.tables)
    /\ \E pretty \in BOOLEAN :
          stdout' = Append(stdout, Json("list_tables", tables, pretty))
    /\ Return("list_tables")
    /\ UNCHANGED <<file, idx, has_sig, tables, fs, calls, stderr>>

---------------------------------------------------------------------------
(* The input files of each specification *)

\* Summaries: every property present or absent.
Summaries ==
    [title : {None, Some(<<84>>)},
     subject : {None, Some(<<83>>)},
     author : {None, Some(<<65>>)},
     uuid : {None, Some(<<18, 52, 86, 120, 154, 188, 222, 240, 1, 35, 69, 103, 137, 171, 205, 239>>)},
     arch : {None, Some(<<120, 54, 52>>)},
     languages : {<<>>, <<1033, 1031>>},
     creation_time : {None, Some(3723)},
     creating_application : {None, Some(<<87, 105, 88>>)},
     codepage : {1252, 65001},
     word_count : {None} \cup {Some(n) : n \in -1..MaxWordCount},
     comments : {None, Some(<<67>>)}]

MetaFiles ==
    {NotACompoundFile} \cup
    {[EmptyPackage EXCEPT !.ds = d, !.ex = e, !.summary = sm] :
        d \in EntryKinds, e \in EntryKinds, sm \in Summaries}

\* Compound files with every combination of what is at the two reserved
\* names; a stream there has bytes.
SigFiles ==
    {NotACompoundFile} \cup
    {[EmptyPackage EXCEPT !.format = f, !.ds = x[1], !.dsBytes = x[2],
                          !.ex = y[1], !.exBytes = y[2]] :
        f \in {"msi", "cfb"},
        x \in {z \in EntryKinds \X ByteSeqs(MaxLen) : z[1] # "stream" => z[2] = <<>>},
        y \in {z \in EntryKinds \X ByteSeqs(MaxLen) : z[1] # "stream" => z[2] = <<>>}}

\* The name of the i-th table: "T" and the digit of i
TableName(i) == <<84, 48 + i>>

CellValues ==
    {NullValue, IntValue(-3), IntValue(12), StrValue(<<65>>), StrValue(<<Quote>>)}

\* Packages with up to MaxTables tables of one column and up to MaxRows rows;
\* each table decodes or not (select_ok) and can be looked up or not
\* (lookup_ok).
TableFiles ==
    {NotACompoundFile} \cup
    {[EmptyPackage EXCEPT !.tables =
          [i \in DOMAIN ts |->
              [name |-> TableName(i), columns |-> << <<73, 100>> >>,
               rows |-> ts[i].rows, select_ok |-> ts[i].select_ok,
               lookup_ok |-> ts[i].lookup_ok]]] :
        ts \in SeqsUpTo([rows : SeqsUpTo([1..1 -> CellValues], MaxRows),
                         select_ok : BOOLEAN, lookup_ok : BOOLEAN], MaxTables)}

---------------------------------------------------------------------------
(* Specifications *)

\* list_metadata on every summary
InitMeta ==
    /\ file \in MetaFiles
    /\ InitSession

NextMeta == GetMetadata

SpecMeta == InitMeta /\ [][NextMeta]_vars

\* list_metadata and extract_certificate on the same file, in either order
InitSig ==
    /\ file \in SigFiles
    /\ InitSession

NextSig ==
    \/ GetMetadata
    \/ CertOpen
    \/ CertSignature
    \/ CertSignatureEx

SpecSig == InitSig /\ [][NextSig]_vars

\* list_tables
InitTables ==
    /\ file \in TableFiles
    /\ InitSession

NextTables ==
    \/ ListTablesOpen
    \/ ListTablesStep
    \/ ListTablesPrint

SpecTables == InitTables /\ [][NextTables]_vars

---------------------------------------------------------------------------
(* Properties *)

\* Subcommand c has run and ended, normally or by a panic.
Finished(c) == cmd = "idle" /\ ran[c] # "no"

\* The input file is a compound file.
IsContainer == file.format # "other"

\* The metadata records printed so far (at most one).
MetaRecords ==
    {stdout[i].v : i \in {j \in DOMAIN stdout : stdout[j].who = "list_metadata"}}

\* A stream (not a storage) is at the reserved name n of the container root.
StreamAt(n) == EntryAt(n) = "stream"

ReservedNames == {DIGITAL_SIGNATURE_STREAM_NAME, MSI_DIGITAL_SIGNATURE_EX_STREAM_NAME}

\* The file in the output directory named after reserved name n without its
\* leading control character.
SignatureFile(n) ==
    IF n = DIGITAL_SIGNATURE_STREAM_NAME
    THEN <<OutDir, DigitalSignatureFileName>>
    ELSE <<OutDir, MsiDigitalSignatureExFileName>>

\* The calls of function fn for stream name n.
CallsOf(fn, n) == {i \in DOMAIN calls : calls[i].fn = fn /\ calls[i].name = n}

\* extract_certificate printed the verdict v.
CertPrinted(v) ==
    \E i \in DOMAIN stdout :
        /\ stdout[i].who = "extract_certificate"
        /\ Len(stdout[i].v) = 1
        /\ stdout[i].v = v

\* extract_certificate reported a failure on standard error.
CertFailureReported ==
    \E i \in DOMAIN stderr : stderr[i].who = "extract_certificate"

\* Only \u{5}DigitalSignature is present as a stream.
OnlyDigitalSignature ==
    /\ StreamAt(DIGITAL_SIGNATURE_STREAM_NAME)
    /\ ~StreamAt(MSI_DIGITAL_SIGNATURE_EX_STREAM_NAME)

\* C1: the is_signed field of the metadata record is true if and only if at
\* least one of the two reserved streams is present at the container root,
\* and it agrees with the verdict extract_certificate prints for the same
\* file (signed / not signed).
C1_IsSignedIffEitherStream ==
    \A m \in MetaRecords :
        /\ m.is_signed <=> (StreamAt(DIGITAL_SIGNATURE_STREAM_NAME)
                            \/ StreamAt(MSI_DIGITAL_SIGNATURE_EX_STREAM_NAME))
        /\ Finished("extract_certificate") => (m.is_signed <=> CertPrinted(Signed))

\* C2: every summary property that is present is stored in the metadata
\* field of the same meaning: title in title, subject in subject, author in
\* author, uuid (hyphenated) in uuid, creating application in created_with,
\* comments in comments.
C2_PropertiesInTheirOwnFields ==
    \A m \in MetaRecords :
        LET summary == file.summary
        IN  /\ IsSome(summary.title) => m.title = Unwrap(summary.title)
            /\ IsSome(summary.subject) => m.subject = Unwrap(summary.subject)
            /\ IsSome(summary.author) => m.author = Unwrap(summary.author)
            /\ IsSome(summary.uuid) => m.uuid = Hyphenated(Unwrap(summary.uuid))
            /\ IsSome(summary.creating_application) =>
                   m.created_with = Unwrap(summary.creating_application)
            /\ IsSome(summary.comments) => m.comments = Unwrap(summary.comments)

\* C3: when extract_all has ended on a package, it has not aborted, every
\* stream of the package was visited in order, and every stream whose own
\* dump did not fail has its file in the output directory.
C3_FailureAffectsOneStreamOnly ==
    (Finished("extract_all") /\ file.format = "msi") =>
        /\ ran["extract_all"] = "ok"
        /\ Len(calls) = Len(stream_names)
        /\ \A i \in DOMAIN calls :
              /\ calls[i].name = stream_names[i]
              /\ calls[i].ret = "true" => calls[i].path \in DOMAIN fs

\* Table t decodes: its rows can be selected and it can be looked up.
TableDecodes(t) == t.select_ok /\ t.lookup_ok

\* C4: when list_tables has ended on a package, it has completed and has
\* printed every table that decodes, with its columns and rows, in order; a
\* table that fails to decode takes only itself out of the output.
C4_DecodingErrorAffectsOneTableOnly ==
    (Finished("list_tables") /\ file.format = "msi") =>
        LET good == SelectSeq(file.tables, TableDecodes)
        IN  /\ ran["list_tables"] = "ok"
            /\ \E i \in DOMAIN stdout :
                  /\ stdout[i].who = "list_tables"
                  /\ stdout[i].v = [k \in DOMAIN good |-> MsiTable(good[k])]

\* C5: for a container with neither reserved signature stream, when
\* extract_certificate has ended it has completed normally, has reported no
\* failure, has printed that the package is not signed, has attempted no
\* extraction and created no file; and the metadata's is_signed is false.
C5_AbsenceIsNotAFailure ==
    (IsContainer /\ \A n \in ReservedNames : ~StreamAt(n)) =>
        /\ \A m \in MetaRecords : ~m.is_signed
        /\ Finished("extract_certificate") =>
              /\ ran["extract_certificate"] = "ok"
              /\ ~CertFailureReported
              /\ CertPrinted(NotSigned)
              /\ ~CertPrinted(Signed)
              /\ calls = <<>>
              /\ fs = NoFiles

\* C6 as stated: for a container with only \u{5}DigitalSignature present,
\* is_signed is true and, when extract_certificate has ended, exactly one
\* file is in the output directory, named DigitalSignature, holding the raw
\* bytes of the stream; for every container, each present reserved stream
\* has been extracted to its file and an absent one has no file.
C6_ExactlyOnePayload ==
    IsContainer =>
        /\ OnlyDigitalSignature => \A m \in MetaRecords : m.is_signed
        /\ Finished("extract_certificate") =>
              /\ OnlyDigitalSignature =>
                    fs = [p \in {SignatureFile(DIGITAL_SIGNATURE_STREAM_NAME)}
                             |-> file.dsBytes]
              /\ \A n \in ReservedNames :
                    IF StreamAt(n)
                    THEN /\ Cardinality(CallsOf("extract_cfb_stream", n)) = 1
                         /\ SignatureFile(n) \in DOMAIN fs
                         /\ fs[SignatureFile(n)] = EntryBytes(n)
                    ELSE SignatureFile(n) \notin DOMAIN fs

\* C6 as amended: for a container with only \u{5}DigitalSignature present,
\* is_signed is true; when extract_certificate has ended, each present
\* reserved stream has been extracted exactly once, and if that extraction
\* returned true its file (the reserved name without the control character)
\* holds the raw bytes of the stream; no file exists for an absent reserved
\* stream, and no other file exists at all.  With only
\* \u{5}DigitalSignature present and its extraction successful, exactly one
\* file is in the output directory.  A failed extraction (the stream does
\* not open, the file is not created, the read or the write fails) leaves
\* no file, or the one file empty or with a proper prefix of the bytes.
C6_ExactlyOnePayloadWhenExtractionSucceeds ==
    IsContainer =>
        /\ OnlyDigitalSignature => \A m \in MetaRecords : m.is_signed
        /\ Finished("extract_certificate") =>
              /\ ran["extract_certificate"] = "ok"
              /\ DOMAIN fs \subseteq {SignatureFile(n) : n \in {r \in ReservedNames : StreamAt(r)}}
              /\ \A n \in ReservedNames :
                    /\ StreamAt(n) => Cardinality(CallsOf("extract_cfb_stream", n)) = 1
                    /\ \A i \in CallsOf("extract_cfb_stream", n) :
                          IF calls[i].ret = "true"
                          THEN /\ SignatureFile(n) \in DOMAIN fs
                               /\ fs[SignatureFile(n)] = EntryBytes(n)
                          ELSE SignatureFile(n) \in DOMAIN fs =>
                                  /\ Len(fs[SignatureFile(n)]) < Len(EntryBytes(n))
                                        \/ EntryBytes(n) = <<>>
                                  /\ fs[SignatureFile(n)] =
                                        SubSeq(EntryBytes(n), 1, Len(fs[SignatureFile(n)]))
              /\ (OnlyDigitalSignature
                   /\ \A i \in CallsOf("extract_cfb_stream", DIGITAL_SIGNATURE_STREAM_NAME) :
                         calls[i].ret = "true") =>
                    fs = [p \in {SignatureFile(DIGITAL_SIGNATURE_STREAM_NAME)}
                             |-> file.dsBytes]

\* C6's case: only \u{5}DigitalSignature is present, with bytes, the
\* metadata was listed, extract_certificate has ended and its one extraction
\* returned true.
C6_Witness ==
    /\ file.format = "msi"
    /\ OnlyDigitalSignature
    /\ file.dsBytes # <<>>
    /\ MetaRecords # {}
    /\ Finished("extract_certificate")
    /\ Len(calls) = 1
    /\ calls[1].name = DIGITAL_SIGNATURE_STREAM_NAME
    /\ calls[1].ret = "true"
    /\ fs = [p \in {<<OutDir, DigitalSignatureFileName>>} |-> file.dsBytes]

\* C7: the metadata record's word_count is the word-count property when it
\* is present, and the sentinel -1, never 0, when it is absent.
C7_WordCountSentinel ==
    \A m \in MetaRecords :
        IF IsSome(file.summary.word_count)
        THEN m.word_count = Unwrap(file.summary.word_count)
        ELSE m.word_count = -1 /\ m.word_count # 0

\* C7's case: a record was printed for a summary without a word count.
C7_Witness ==
    /\ Finished("list_metadata")
    /\ \E m \in MetaRecords :
          /\ ~IsSome(file.summary.word_count)
          /\ m.word_count = -1

\* C8: when extract_all has returned, every stream whose dump returned true
\* still has its own bytes in its output file (no later dump has written
\* over it).
C8_NoDumpOverwritesAnother ==
    (Finished("extract_all") /\ ran["extract_all"] = "ok") =>
        \A i \in DOMAIN calls :
            calls[i].ret = "true" =>
                /\ calls[i].path \in DOMAIN fs
                /\ fs[calls[i].path] = StreamBytes(calls[i].name)

\* C9: every file on disk lies directly inside the output directory, and
\* every path that dump_stream or extract_cfb_stream joins from a sanitized
\* name denotes a file directly inside the output directory.
C9_FilesStayInOutputDir ==
    /\ \A p \in DOMAIN fs : p[1] = OutDir
    /\ \A i \in DOMAIN calls :
          calls[i].why \notin {"read_stream", "open_stream"} => calls[i].path[1] = OutDir

\* C10: a call of dump_stream or extract_cfb_stream returns true if and only
\* if the stream's complete bytes are in its output file after the call, and
\* a call that returns false because the stream could not be opened or read
\* leaves the files on disk as they were.
C10_FalseLeavesNoFile ==
    \A i \in DOMAIN calls :
        LET c     == calls[i]
            bytes == IF c.fn = "dump_stream" THEN StreamBytes(c.name)
                     ELSE EntryBytes(c.name)
        IN  /\ c.ret = "true" =>
                  c.path \in DOMAIN c.after /\ c.after[c.path] = bytes
            /\ (c.ret = "false" /\ c.why \in {"read_stream", "open_stream", "read_to_end"})
                  => c.after = c.before

===========================================================================
